---- MODULE Spec2Model ----
(***************************************************************************)
(* Model of src/main.py: a FastAPI service over four MongoDB collections   *)
(* (permissions, plans, subscriptions, usage).  Every `await db...` is one *)
(* atomic store operation and one scheduling point of the event loop: a    *)
(* handler that awaits twice can be interleaved with any other request     *)
(* between its two store operations.                                       *)
(*                                                                         *)
(* A collection is a sequence of documents in insertion (natural) order:   *)
(* find_one / replace_one / update_one / delete_one act on the first       *)
(* document that matches the filter, insert_one appends, and nothing       *)
(* makes a key unique.  Fields that no handler reads and no store filter   *)
(* mentions (names, descriptions, endpoint, start_date) are left out of    *)
(* the documents.                                                          *)
(***************************************************************************)
EXTENDS Integers, Sequences, FiniteSets, TLC

VARIABLES permissions, plans, subscriptions, usage, now, procs

vars == <<permissions, plans, subscriptions, usage, now, procs>>

(***************************************************************************)
(* Bounds of the model.                                                    *)
(***************************************************************************)
MaxLimit == 1
MaxTime == 1
MaxPerms == 1
MaxPlans == 1
MaxSubs == 2
MaxUsage == 2
NumProcs == 1
RaceProcs == 3
MaxSeqLimit == 3
KeyProcs == 2
MaxKeyCount == 3
\* The window length the rollover claim speaks of; main.py has none.
WindowDuration == 1

\* A counter is followed one call past the largest limit.
MaxCount == MaxLimit + 1

(***************************************************************************)
(* USERS_DB after setup_mock: the two callers a token resolves to.  A      *)
(* request with any other token is answered 401 before its handler runs.   *)
(***************************************************************************)
Users == {"admin1", "user1"}

Role(u) == IF u = "admin1" THEN "admin" ELSE "customer"

\* Values of the path and body parameters the requests are drawn from.
UserIds == Users
Apis == {"storage"}
PlanIds == {"p1"}
PermIds == {"storage"}
NoDate == -1
EndDates == {NoDate, 0}

LimitMaps == UNION {[D -> 0 .. MaxLimit] : D \in SUBSET Apis}

PermissionBodies == [id : PermIds]

PlanBodies == [id : PlanIds, api_permissions : SUBSET Apis, api_limits : LimitMaps]

SubscriptionBodies == [user_id : UserIds, plan_id : PlanIds, end_date : EndDates]

(***************************************************************************)
(* Store operations (motor / MongoDB semantics of the calls in main.py).   *)
(* A filter is a record of field values, matched by the documents that     *)
(* carry those values; a lookup result is <<>> (None) or <<doc>>.          *)
(***************************************************************************)
Matches(doc, filter) == \A k \in DOMAIN filter : doc[k] = filter[k]

FirstIdx(coll, filter) ==
    IF \E i \in 1 .. Len(coll) : Matches(coll[i], filter)
    THEN CHOOSE i \in 1 .. Len(coll) :
            Matches(coll[i], filter) /\ \A j \in 1 .. (i - 1) : ~Matches(coll[j], filter)
    ELSE 0

FindOne(coll, filter) ==
    IF FirstIdx(coll, filter) = 0 THEN <<>> ELSE <<coll[FirstIdx(coll, filter)]>>

InsertOne(coll, doc) == Append(coll, doc)

RemoveAt(coll, i) == [k \in 1 .. (Len(coll) - 1) |-> IF k < i THEN coll[k] ELSE coll[k + 1]]

DeleteOne(coll, filter) ==
    IF FirstIdx(coll, filter) = 0 THEN coll ELSE RemoveAt(coll, FirstIdx(coll, filter))

\* replace_one(filter, doc, upsert=True): the first match becomes doc; with no
\* match doc itself is inserted (the filter's fields are not merged into it).
ReplaceOneUpsert(coll, filter, doc) ==
    IF FirstIdx(coll, filter) = 0
    THEN Append(coll, doc)
    ELSE [coll EXCEPT ![FirstIdx(coll, filter)] = doc]

\* update_one(filter, {"$set": {"count": c}}): no upsert, no match is a no-op.
UpdateOneSetCount(coll, filter, c) ==
    IF FirstIdx(coll, filter) = 0
    THEN coll
    ELSE [coll EXCEPT ![FirstIdx(coll, filter)].count = c]

\* dict.get(key, default)
DictGet(d, k, default) == IF k \in DOMAIN d THEN d[k] ELSE default

FindSubscription(uid) == FindOne(subscriptions, [user_id |-> uid])

FindPlan(pid) == FindOne(plans, [id |-> pid])

FindUsage(uid, api) == FindOne(usage, [user_id |-> uid, api_name |-> api])

(***************************************************************************)
(* Request handlers.  procs[p] is one request of check_access, track_usage *)
(* or dummy_cloud_api: op is the endpoint, pc the store operation it       *)
(* awaits next, and subscription, plan, usage, ts are the handler's local  *)
(* variables.  result is the HTTP status of the response.                  *)
(***************************************************************************)
Idle == [pc |-> "idle", op |-> "none", uid |-> "none", api |-> "none",
         subscription |-> <<>>, plan |-> <<>>, usage |-> <<>>, ts |-> NoDate,
         result |-> "none"]

Request(o, u, a, first) == [Idle EXCEPT !.pc = first, !.op = o, !.uid = u, !.api = a]

\* The response: the handler's locals die with it.
Respond(r, status) ==
    [Idle EXCEPT !.pc = "done", !.op = r.op, !.uid = r.uid, !.api = r.api, !.result = status]

Free(p) == procs[p].pc \in {"idle", "done"}


(***************************************************************************)
(* check_access: three awaited lookups, each followed by its test.         *)
(***************************************************************************)
\* Mutant of AfterSubscription: the 404 is not raised and the request goes on to
\* track_usage.
AfterSubscriptionNoRaise(r, s) ==
    IF s = <<>>
    THEN [r EXCEPT !.pc = "tu_find"]
    ELSE [r EXCEPT !.subscription = s, !.pc = "ca_plan"]

\* lines 150-152: no subscription document is a 404
AfterSubscription(r, s) ==
    IF s = <<>>
    THEN Respond(r, "404")
    ELSE [r EXCEPT !.subscription = s, !.pc = "ca_plan"]

\* Mutant of AfterPlan: only a missing plan is a 403, the permission list is not
\* consulted.
AfterPlanNoPermissionTest(r, pl) ==
    IF pl = <<>>
    THEN Respond(r, "403")
    ELSE [r EXCEPT !.plan = pl, !.pc = "ca_usage"]

\* lines 154-156: no plan document, or the api not among its permissions, is a 403
AfterPlan(r, pl) ==
    IF pl = <<>> \/ r.api \notin pl[1].api_permissions
    THEN Respond(r, "403")
    ELSE [r EXCEPT !.plan = pl, !.pc = "ca_usage"]

\* Mutant of LimitExceeded: > for >=.
LimitExceededStrict(u, pl, api) ==
    u # <<>> /\ u[1].count > DictGet(pl[1].api_limits, api, 0)

\* line 159: the limit test, made only when a usage document exists
LimitExceeded(u, pl, api) ==
    u # <<>> /\ u[1].count >= DictGet(pl[1].api_limits, api, 0)

\* lines 158-162, and line 199 for dummy_cloud_api: check_access returns and
\* track_usage runs up to its first await
AfterUsage(r, u) ==
    IF LimitExceeded(u, r.plan, r.api)
    THEN Respond(r, "429")
    ELSE IF r.op = "check_access"
         THEN Respond(r, "200")
         ELSE [r EXCEPT !.subscription = <<>>, !.plan = <<>>, !.pc = "tu_find"]

\* lines 166-173: the lookup of track_usage; a new record's last_reset is read
\* from the clock before the insert is awaited
AfterTrackFind(r, u, t) ==
    [r EXCEPT !.usage = u, !.ts = IF u = <<>> THEN t ELSE NoDate, !.pc = "tu_write"]

\* Mutant of TrackWriteStore: the update filter names the api only.
TrackWriteStoreByApi(coll, r) ==
    IF r.usage = <<>>
    THEN InsertOne(coll, [user_id |-> r.uid, api_name |-> r.api, count |-> 1,
                          last_reset |-> r.ts])
    ELSE UpdateOneSetCount(coll, [api_name |-> r.api], r.usage[1].count + 1)

\* lines 168-174 and 177-181: the write of track_usage, from what it read earlier
TrackWriteStore(coll, r) ==
    IF r.usage = <<>>
    THEN InsertOne(coll, [user_id |-> r.uid, api_name |-> r.api, count |-> 1,
                          last_reset |-> r.ts])
    ELSE UpdateOneSetCount(coll, [user_id |-> r.uid, api_name |-> r.api], r.usage[1].count + 1)

\* The model's cap on the store: the write is not taken past maxDocs documents
\* or a count of maxCount.
TrackWriteInBounds(r, maxDocs, maxCount) ==
    IF r.usage = <<>> THEN Len(usage) < maxDocs ELSE r.usage[1].count + 1 <= maxCount

StartCloudApi(p, c, a) ==
    /\ Free(p)
    /\ procs' = [procs EXCEPT ![p] = Request("dummy_cloud_api", c, a, "ca_sub")]
    /\ UNCHANGED <<permissions, plans, subscriptions, usage, now>>

StartCheckAccess(p, u, a) ==
    /\ Free(p)
    /\ procs' = [procs EXCEPT ![p] = Request("check_access", u, a, "ca_sub")]
    /\ UNCHANGED <<permissions, plans, subscriptions, usage, now>>

StartTrackUsage(p, u, a) ==
    /\ Free(p)
    /\ procs' = [procs EXCEPT ![p] = Request("track_usage", u, a, "tu_find")]
    /\ UNCHANGED <<permissions, plans, subscriptions, usage, now>>

CheckSubscription(p) ==
    /\ procs[p].pc = "ca_sub"
    /\ procs' = [procs EXCEPT ![p] = AfterSubscription(procs[p], FindSubscription(procs[p].uid))]
    /\ UNCHANGED <<permissions, plans, subscriptions, usage, now>>

CheckPlan(p) ==
    /\ procs[p].pc = "ca_plan"
    /\ procs' = [procs EXCEPT ![p] = AfterPlan(procs[p], FindPlan(procs[p].subscription[1].plan_id))]
    /\ UNCHANGED <<permissions, plans, subscriptions, usage, now>>

CheckUsage(p) ==
    /\ procs[p].pc = "ca_usage"
    /\ procs' = [procs EXCEPT ![p] = AfterUsage(procs[p], FindUsage(procs[p].uid, procs[p].api))]
    /\ UNCHANGED <<permissions, plans, subscriptions, usage, now>>

TrackFind(p) ==
    /\ procs[p].pc = "tu_find"
    /\ procs' = [procs EXCEPT ![p] = AfterTrackFind(procs[p], FindUsage(procs[p].uid, procs[p].api), now)]
    /\ UNCHANGED <<permissions, plans, subscriptions, usage, now>>

TrackWrite(p, maxDocs, maxCount) ==
    /\ procs[p].pc = "tu_write"
    /\ TrackWriteInBounds(procs[p], maxDocs, maxCount)
    /\ usage' = TrackWriteStore(usage, procs[p])
    /\ procs' = [procs EXCEPT ![p] = Respond(procs[p], "200")]
    /\ UNCHANGED <<permissions, plans, subscriptions, now>>

(***************************************************************************)
(* The other endpoints: the role test and one store operation with no      *)
(* await between them, so each is one step.  A caller without the role     *)
(* gets a 403 and the step changes nothing.  Each endpoint is the store it *)
(* leaves (an operator on the collection) and the action applying it.      *)
(***************************************************************************)
\* Mutant of Forbidden: the gate accepts every caller whose token resolved to a
\* user of USERS_DB, whatever the role.
ForbiddenUnknownOnly(c, role) == c \notin Users

Forbidden(c, role) == Role(c) # role

AddPermissionStore(coll, c, body) ==
    IF Forbidden(c, "admin") THEN coll ELSE InsertOne(coll, body)

AddPermission(c, body) ==
    /\ ~Forbidden(c, "admin") => Len(permissions) < MaxPerms
    /\ permissions' = AddPermissionStore(permissions, c, body)
    /\ UNCHANGED <<plans, subscriptions, usage, now, procs>>

GetPermissions(c) ==
    /\ c \in Users
    /\ UNCHANGED vars

DeletePermissionStore(coll, c, perm_id) ==
    IF Forbidden(c, "admin") THEN coll ELSE DeleteOne(coll, [id |-> perm_id])

DeletePermission(c, perm_id) ==
    /\ permissions' = DeletePermissionStore(permissions, c, perm_id)
    /\ UNCHANGED <<plans, subscriptions, usage, now, procs>>

CreatePlanStore(coll, c, body) ==
    IF Forbidden(c, "admin") THEN coll ELSE InsertOne(coll, body)

CreatePlan(c, body) ==
    /\ ~Forbidden(c, "admin") => Len(plans) < MaxPlans
    /\ plans' = CreatePlanStore(plans, c, body)
    /\ UNCHANGED <<permissions, subscriptions, usage, now, procs>>

ModifyPlanStore(coll, c, plan_id, body) ==
    IF Forbidden(c, "admin") THEN coll ELSE ReplaceOneUpsert(coll, [id |-> plan_id], body)

ModifyPlan(c, plan_id, body) ==
    /\ Len(ModifyPlanStore(plans, c, plan_id, body)) <= MaxPlans
    /\ plans' = ModifyPlanStore(plans, c, plan_id, body)
    /\ UNCHANGED <<permissions, subscriptions, usage, now, procs>>

GetPlans(c) ==
    /\ c \in Users
    /\ UNCHANGED vars

DeletePlanStore(coll, c, plan_id) ==
    IF Forbidden(c, "admin") THEN coll ELSE DeleteOne(coll, [id |-> plan_id])

DeletePlan(c, plan_id) ==
    /\ plans' = DeletePlanStore(plans, c, plan_id)
    /\ UNCHANGED <<permissions, subscriptions, usage, now, procs>>

\* line 126: the filter is the caller's id, the document stored is the body
SubscribeStore(coll, c, sub) ==
    IF Forbidden(c, "customer") THEN coll ELSE ReplaceOneUpsert(coll, [user_id |-> c], sub)

Subscribe(c, sub) ==
    /\ Len(SubscribeStore(subscriptions, c, sub)) <= MaxSubs
    /\ subscriptions' = SubscribeStore(subscriptions, c, sub)
    /\ UNCHANGED <<permissions, plans, usage, now, procs>>

ViewSubscription(user_id) ==
    /\ user_id \in UserIds
    /\ UNCHANGED vars

DeleteSubscriptionStore(coll, c, user_id) ==
    IF Forbidden(c, "admin") THEN coll ELSE DeleteOne(coll, [user_id |-> user_id])

DeleteSubscription(c, user_id) ==
    /\ subscriptions' = DeleteSubscriptionStore(subscriptions, c, user_id)
    /\ UNCHANGED <<permissions, plans, usage, now, procs>>

DeleteUsageStore(coll, c, user_id, api_name) ==
    IF Forbidden(c, "admin")
    THEN coll
    ELSE DeleteOne(coll, [user_id |-> user_id, api_name |-> api_name])

DeleteUsage(c, user_id, api_name) ==
    /\ usage' = DeleteUsageStore(usage, c, user_id, api_name)
    /\ UNCHANGED <<permissions, plans, subscriptions, now, procs>>

(***************************************************************************)
(* The status each role-gated endpoint answers with: 403 for a caller      *)
(* without the role, 404 from the delete endpoints when delete_one removed *)
(* nothing, 200 otherwise.  coll is the collection before the call.        *)
(***************************************************************************)
AddPermissionStatus(c) == IF Forbidden(c, "admin") THEN "403" ELSE "200"

DeletePermissionStatus(coll, c, perm_id) ==
    IF Forbidden(c, "admin")
    THEN "403"
    ELSE IF FindOne(coll, [id |-> perm_id]) = <<>> THEN "404" ELSE "200"

CreatePlanStatus(c) == IF Forbidden(c, "admin") THEN "403" ELSE "200"

ModifyPlanStatus(c) == IF Forbidden(c, "admin") THEN "403" ELSE "200"

DeletePlanStatus(coll, c, plan_id) ==
    IF Forbidden(c, "admin")
    THEN "403"
    ELSE IF FindOne(coll, [id |-> plan_id]) = <<>> THEN "404" ELSE "200"

SubscribeStatus(c) == IF Forbidden(c, "customer") THEN "403" ELSE "200"

DeleteSubscriptionStatus(coll, c, user_id) ==
    IF Forbidden(c, "admin")
    THEN "403"
    ELSE IF FindOne(coll, [user_id |-> user_id]) = <<>> THEN "404" ELSE "200"

DeleteUsageStatus(coll, c, user_id, api_name) ==
    IF Forbidden(c, "admin")
    THEN "403"
    ELSE IF FindOne(coll, [user_id |-> user_id, api_name |-> api_name]) = <<>>
         THEN "404"
         ELSE "200"

\* The wall clock read by datetime.utcnow() moves on between any two steps.
Tick ==
    /\ now < MaxTime
    /\ now' = now + 1
    /\ UNCHANGED <<permissions, plans, subscriptions, usage, procs>>

(***************************************************************************)
(* Spec: the access path of the service.  Collections start empty, no      *)
(* request is in flight; requests of the three access endpoints run in     *)
(* the handlers, interleaved at every await with each other, with the      *)
(* endpoints that write plans, subscriptions and usage, and with the       *)
(* clock.  The permissions collection is read by no access endpoint and    *)
(* written by none of these; its endpoints run in SpecCatalog.             *)
(***************************************************************************)
Procs == 1 .. NumProcs

Init ==
    /\ permissions = <<>>
    /\ plans = <<>>
    /\ subscriptions = <<>>
    /\ usage = <<>>
    /\ now = 0
    /\ procs = [p \in Procs |-> Idle]

Step(p, maxDocs, maxCount) ==
    \/ CheckSubscription(p)
    \/ CheckPlan(p)
    \/ CheckUsage(p)
    \/ TrackFind(p)
    \/ TrackWrite(p, maxDocs, maxCount)

Next ==
    \/ Tick
    \/ \E p \in DOMAIN procs : Step(p, MaxUsage, MaxCount)
    \/ \E p \in DOMAIN procs, c \in Users, a \in Apis : StartCloudApi(p, c, a)
    \/ \E p \in DOMAIN procs, u \in UserIds, a \in Apis : StartCheckAccess(p, u, a)
    \/ \E p \in DOMAIN procs, u \in UserIds, a \in Apis : StartTrackUsage(p, u, a)
    \/ \E c \in Users, body \in PlanBodies : CreatePlan(c, body)
    \/ \E c \in Users, i \in PlanIds, body \in PlanBodies : ModifyPlan(c, i, body)
    \/ \E c \in Users, i \in PlanIds : DeletePlan(c, i)
    \/ \E c \in Users, sub \in SubscriptionBodies : Subscribe(c, sub)
    \/ \E u \in UserIds : ViewSubscription(u)
    \/ \E c \in Users, u \in UserIds : DeleteSubscription(c, u)
    \/ \E c \in Users, u \in UserIds, a \in Apis : DeleteUsage(c, u, a)

Spec == Init /\ [][Next]_vars

(***************************************************************************)
(* SpecCatalog: the endpoints of the permissions and plans collections.    *)
(***************************************************************************)
CatalogNext ==
    \/ \E c \in Users, body \in PermissionBodies : AddPermission(c, body)
    \/ \E c \in Users : GetPermissions(c)
    \/ \E c \in Users, i \in PermIds : DeletePermission(c, i)
    \/ \E c \in Users, body \in PlanBodies : CreatePlan(c, body)
    \/ \E c \in Users, i \in PlanIds, body \in PlanBodies : ModifyPlan(c, i, body)
    \/ \E c \in Users : GetPlans(c)
    \/ \E c \in Users, i \in PlanIds : DeletePlan(c, i)

SpecCatalog == Init /\ [][CatalogNext]_vars

(***************************************************************************)
(* SpecAdmin: every role-gated endpoint, called by every user of USERS_DB, *)
(* with the requests of track_usage that fill the usage collection.        *)
(***************************************************************************)
AdminNext ==
    \/ CatalogNext
    \/ \E c \in Users, sub \in SubscriptionBodies : Subscribe(c, sub)
    \/ \E c \in Users, u \in UserIds : DeleteSubscription(c, u)
    \/ \E c \in Users, u \in UserIds, a \in Apis : DeleteUsage(c, u, a)
    \/ \E p \in DOMAIN procs, u \in UserIds, a \in Apis : StartTrackUsage(p, u, a)
    \/ \E p \in DOMAIN procs : TrackFind(p)
    \/ \E p \in DOMAIN procs : TrackWrite(p, MaxUsage, MaxCount)

SpecAdmin == Init /\ [][AdminNext]_vars

(***************************************************************************)
(* SpecRace: RaceProcs concurrent requests of dummy_cloud_api by one       *)
(* subscribed user for one api, one request per handler, under a plan      *)
(* that permits the api with a limit L >= 1; no other endpoint runs.       *)
(***************************************************************************)
RaceInit ==
    /\ permissions = <<>>
    /\ \E a \in Apis, l \in 1 .. RaceProcs :
          plans = <<[id |-> "p1", api_permissions |-> {a}, api_limits |-> [x \in {a} |-> l]]>>
    /\ \E u \in Users : subscriptions = <<[user_id |-> u, plan_id |-> "p1", end_date |-> NoDate]>>
    /\ usage = <<>>
    /\ now = 0
    /\ procs = [p \in 1 .. RaceProcs |-> Idle]

RaceStart(p) ==
    /\ procs[p].pc = "idle"
    /\ \E a \in plans[1].api_permissions : StartCloudApi(p, subscriptions[1].user_id, a)

RaceNext ==
    \/ \E p \in DOMAIN procs : RaceStart(p)
    \/ \E p \in DOMAIN procs : Step(p, RaceProcs, RaceProcs)

SpecRace == RaceInit /\ [][RaceNext]_vars

(***************************************************************************)
(* SpecSeq: requests of dummy_cloud_api by one subscribed user for one     *)
(* api, one after the other (request p starts when requests 1 .. p-1 have  *)
(* been answered), under a plan that permits the api with limit L >= 1,    *)
(* from an empty usage collection.                                         *)
(***************************************************************************)
SeqCalls == MaxSeqLimit + 1

SeqInit ==
    /\ permissions = <<>>
    /\ \E a \in Apis, l \in 1 .. MaxSeqLimit :
          plans = <<[id |-> "p1", api_permissions |-> {a}, api_limits |-> [x \in {a} |-> l]]>>
    /\ \E u \in Users, e \in EndDates :
          subscriptions = <<[user_id |-> u, plan_id |-> "p1", end_date |-> e]>>
    /\ usage = <<>>
    /\ now = 0
    /\ procs = [p \in 1 .. SeqCalls |-> Idle]

SeqStart(p) ==
    /\ procs[p].pc = "idle"
    /\ \A q \in DOMAIN procs : q # p => procs[q].pc = (IF q < p THEN "done" ELSE "idle")
    /\ \E a \in plans[1].api_permissions : StartCloudApi(p, subscriptions[1].user_id, a)

SeqNext ==
    \/ \E p \in DOMAIN procs : SeqStart(p)
    \/ \E p \in DOMAIN procs : Step(p, SeqCalls, SeqCalls)

SpecSeq == SeqInit /\ [][SeqNext]_vars

(***************************************************************************)
(* SpecKeys: KeyProcs handlers serving request after request of            *)
(* dummy_cloud_api and track_usage for the keys (user, api) of both users, *)
(* concurrently, with calls of delete_usage between their steps.  Both     *)
(* users hold a subscription to a plan that permits the api with limit     *)
(* MaxKeyCount (subscribe stores the user_id of the body, line 126); the   *)
(* usage collection starts empty.                                          *)
(***************************************************************************)
KeysInit ==
    /\ permissions = <<>>
    /\ \E a \in Apis :
          plans = <<[id |-> "p1", api_permissions |-> {a}, api_limits |-> [x \in {a} |-> MaxKeyCount]]>>
    /\ \E u1 \in Users : \E u2 \in Users \ {u1} :
          subscriptions = <<[user_id |-> u1, plan_id |-> "p1", end_date |-> NoDate],
                            [user_id |-> u2, plan_id |-> "p1", end_date |-> NoDate]>>
    /\ usage = <<>>
    /\ now = 0
    /\ procs = [p \in 1 .. KeyProcs |-> Idle]

KeysNext ==
    \/ \E p \in DOMAIN procs, c \in Users, a \in Apis : StartCloudApi(p, c, a)
    \/ \E p \in DOMAIN procs, u \in UserIds, a \in Apis : StartTrackUsage(p, u, a)
    \/ \E p \in DOMAIN procs : Step(p, KeyProcs, MaxKeyCount)
    \/ \E c \in Users, u \in UserIds, a \in Apis : DeleteUsage(c, u, a)

SpecKeys == KeysInit /\ [][KeysNext]_vars

(***************************************************************************)
(* Vocabulary of the properties.                                           *)
(***************************************************************************)
\* Handler p takes a step from the await named by pc while serving dummy_cloud_api.
CloudStepAt(p, pc) ==
    /\ procs[p].op = "dummy_cloud_api"
    /\ procs[p].pc = pc
    /\ procs'[p] # procs[p]

Denied(r, status) == r.pc = "done" /\ r.result = status

Expired(s, t) == s.end_date # NoDate /\ s.end_date < t

\* Some plan document lists perm_id in api_permissions.
PlanReferences(perm_id) ==
    \E k \in 1 .. Len(plans) : perm_id \in plans[k].api_permissions

\* The usage documents of the key (uid, api), in store order.
KeyRecords(coll, uid, api) ==
    SelectSeq(coll, LAMBDA d : Matches(d, [user_id |-> uid, api_name |-> api]))

\* The step leaves alone the usage documents of every key but (uid, api), and the
\* permissions, plans and subscriptions collections.
OtherKeysUntouched(uid, api) ==
    /\ \A u \in UserIds, a \in Apis :
          <<u, a>> # <<uid, api>> => KeyRecords(usage', u, a) = KeyRecords(usage, u, a)
    /\ UNCHANGED <<permissions, plans, subscriptions>>

\* The count of the lookup result u, an absent record counting as 0.
CountOf(u) == IF u = <<>> THEN 0 ELSE u[1].count

RECURSIVE SumCounts(_, _, _)
SumCounts(coll, uid, api) ==
    IF coll = <<>>
    THEN 0
    ELSE (IF Head(coll).user_id = uid /\ Head(coll).api_name = api THEN Head(coll).count ELSE 0)
         + SumCounts(Tail(coll), uid, api)

\* The requests of dummy_cloud_api for (uid, api) answered 200.
AllowedCalls(uid, api) ==
    {p \in DOMAIN procs : /\ procs[p].op = "dummy_cloud_api"
                          /\ procs[p].uid = uid
                          /\ procs[p].api = api
                          /\ procs[p].pc = "done"
                          /\ procs[p].result = "200"}

(***************************************************************************)
(* C1 (SpecRace): of the concurrent dummy_cloud_api requests for one       *)
(* (user, api) under a plan that permits the api with limit L, at most L   *)
(* are answered 200, in every interleaving.  The code violates it.         *)
(***************************************************************************)
C1_AtMostLimitAllowed ==
    \A a \in plans[1].api_permissions :
        Cardinality(AllowedCalls(subscriptions[1].user_id, a)) <= plans[1].api_limits[a]

(***************************************************************************)
(* C2 (Spec): a dummy_cloud_api request that reaches the limit check when  *)
(* the usage record's window has elapsed (now >= last_reset +              *)
(* WindowDuration) is not answered 429 under a limit of at least 1, even   *)
(* if the stored count is at or above the limit.  The code violates it.    *)
(***************************************************************************)
C2_WindowRollover ==
    [][\A p \in DOMAIN procs :
          LET r == procs[p]
              u == FindUsage(r.uid, r.api)
          IN  (/\ CloudStepAt(p, "ca_usage")
               /\ u # <<>>
               /\ now >= u[1].last_reset + WindowDuration
               /\ r.api \in DOMAIN r.plan[1].api_limits
               /\ r.plan[1].api_limits[r.api] >= 1)
              => ~Denied(procs'[p], "429")]_vars

(***************************************************************************)
(* C3 (Spec): a dummy_cloud_api request whose user has no subscription     *)
(* document is answered 404 at its subscription lookup, which ends the     *)
(* request, and the usage collection is unchanged.                         *)
(***************************************************************************)
C3_NoSubscriptionDenied ==
    [][\A p \in DOMAIN procs :
          (CloudStepAt(p, "ca_sub") /\ FindSubscription(procs[p].uid) = <<>>)
          => (Denied(procs'[p], "404") /\ usage' = usage)]_vars

C3_Witness ==
    \E p \in DOMAIN procs :
        /\ procs[p].op = "dummy_cloud_api"
        /\ Denied(procs[p], "404")
        /\ FindSubscription(procs[p].uid) = <<>>
        /\ usage # <<>>

(***************************************************************************)
(* C4 (Spec): a dummy_cloud_api request whose plan does not list the api   *)
(* in api_permissions is answered 403 at its plan lookup, which ends the   *)
(* request, whatever the usage count and whether or not api_limits has an  *)
(* entry for the api, and the usage collection is unchanged.               *)
(***************************************************************************)
C4_PermissionDenied ==
    [][\A p \in DOMAIN procs :
          LET pl == FindPlan(procs[p].subscription[1].plan_id)
          IN  (/\ CloudStepAt(p, "ca_plan")
               /\ pl # <<>>
               /\ procs[p].api \notin pl[1].api_permissions)
              => (Denied(procs'[p], "403") /\ usage' = usage)]_vars

\* A 403 under a plan with a limit entry but no permission, the count at the limit.
C4_Witness ==
    \E p \in DOMAIN procs :
        LET r == procs[p]
            s == FindSubscription(r.uid)
            pl == IF s = <<>> THEN <<>> ELSE FindPlan(s[1].plan_id)
        IN  /\ r.op = "dummy_cloud_api"
            /\ Denied(r, "403")
            /\ pl # <<>>
            /\ r.api \notin pl[1].api_permissions
            /\ r.api \in DOMAIN pl[1].api_limits
            /\ FindUsage(r.uid, r.api) # <<>>
            /\ CountOf(FindUsage(r.uid, r.api)) >= pl[1].api_limits[r.api]

(***************************************************************************)
(* C5 (Spec): a dummy_cloud_api request under a plan that lists the api in *)
(* api_permissions and has no api_limits entry for it is never answered    *)
(* 429.  The code violates it.                                             *)
(***************************************************************************)
C5_NoLimitEntryUnlimited ==
    [][\A p \in DOMAIN procs :
          (/\ CloudStepAt(p, "ca_usage")
           /\ procs[p].api \notin DOMAIN procs[p].plan[1].api_limits)
          => ~Denied(procs'[p], "429")]_vars

(***************************************************************************)
(* C6 (Spec): a dummy_cloud_api request that reaches the limit check with  *)
(* the count (0 for an absent record) at or above the plan's limit, a      *)
(* limit of 0 included, is answered 429 and the usage collection is        *)
(* unchanged.  The code violates it.                                       *)
(***************************************************************************)
C6_DeniedAtOrAboveLimit ==
    [][\A p \in DOMAIN procs :
          LET r == procs[p]
          IN  (/\ CloudStepAt(p, "ca_usage")
               /\ r.api \in DOMAIN r.plan[1].api_limits
               /\ CountOf(FindUsage(r.uid, r.api)) >= r.plan[1].api_limits[r.api])
              => (Denied(procs'[p], "429") /\ usage' = usage)]_vars

(***************************************************************************)
(* C7 (SpecSeq): in a sequential run from no usage record under limit      *)
(* L >= 1, requests 1 .. L are answered 200 and every later request is     *)
(* answered 429 with the counter at L.                                     *)
(***************************************************************************)
C7_FirstLAllowedThenDenied ==
    \A p \in DOMAIN procs :
        LET r == procs[p]
            L == plans[1].api_limits[r.api]
        IN  r.pc = "done" =>
              /\ p <= L => (r.result = "200" /\ CountOf(FindUsage(r.uid, r.api)) >= p)
              /\ p > L => (r.result = "429" /\ CountOf(FindUsage(r.uid, r.api)) = L)

C7_Witness ==
    \E p \in DOMAIN procs :
        /\ procs[p].pc = "done"
        /\ procs[p].result = "429"
        /\ p = plans[1].api_limits[procs[p].api] + 1
        /\ p >= 3
        /\ \A q \in 1 .. (p - 1) : procs[q].result = "200"

(***************************************************************************)
(* C8 (SpecRace): once every concurrent dummy_cloud_api request on one     *)
(* (user, api) has been answered, the count stored for the key (summed     *)
(* over its records) equals the number of requests answered 200.  The      *)
(* code violates it.                                                       *)
(***************************************************************************)
C8_CountEqualsAllowed ==
    (\A p \in DOMAIN procs : procs[p].pc = "done") =>
        \A a \in plans[1].api_permissions :
            SumCounts(usage, subscriptions[1].user_id, a)
                = Cardinality(AllowedCalls(subscriptions[1].user_id, a))

(***************************************************************************)
(* C9 (Spec): the subscriptions collection never holds two documents with  *)
(* the same user_id.  The code violates it.                                *)
(***************************************************************************)
C9_OneSubscriptionPerUser ==
    \A i, j \in 1 .. Len(subscriptions) :
        subscriptions[i].user_id = subscriptions[j].user_id => i = j

(***************************************************************************)
(* C10 (Spec): a dummy_cloud_api request whose subscription lookup finds   *)
(* a document with end_date set and in the past is denied there: the       *)
(* request ends with a status other than 200 and the usage collection is   *)
(* unchanged.  The case taken is the one where the plan, the permission    *)
(* and the count would admit the request.  The code violates it.           *)
(***************************************************************************)
C10_ExpiredSubscriptionDenied ==
    [][\A p \in DOMAIN procs :
          LET r == procs[p]
              s == FindSubscription(r.uid)
              pl == FindPlan(s[1].plan_id)
          IN  (/\ CloudStepAt(p, "ca_sub")
               /\ s # <<>>
               /\ Expired(s[1], now)
               /\ pl # <<>>
               /\ r.api \in pl[1].api_permissions
               /\ ~LimitExceeded(FindUsage(r.uid, r.api), pl, r.api))
              => (procs'[p].pc = "done" /\ procs'[p].result # "200" /\ usage' = usage)]_vars

(***************************************************************************)
(* C11 (Spec): a dummy_cloud_api request whose subscription names a plan   *)
(* id with no plan document is answered with the status of a user without  *)
(* subscription, 404, and the usage collection is unchanged.  The code     *)
(* violates it: the answer is the 403 of a missing permission.             *)
(***************************************************************************)
C11_DanglingPlanIsNoSubscription ==
    [][\A p \in DOMAIN procs :
          (/\ CloudStepAt(p, "ca_plan")
           /\ FindPlan(procs[p].subscription[1].plan_id) = <<>>)
          => (Denied(procs'[p], "404") /\ usage' = usage)]_vars

\* A 403 for a subscribed user whose plan document is gone, usage records present.
C11_Witness ==
    \E p \in DOMAIN procs :
        LET r == procs[p]
            s == FindSubscription(r.uid)
        IN  /\ r.op = "dummy_cloud_api"
            /\ Denied(r, "403")
            /\ s # <<>>
            /\ FindPlan(s[1].plan_id) = <<>>
            /\ FindUsage(r.uid, r.api) # <<>>

(***************************************************************************)
(* C12 (SpecAdmin): a call of delete_permission for a permission id that   *)
(* some plan lists in api_permissions is answered with an error and leaves *)
(* the permissions collection unchanged, so that no plan comes to list a   *)
(* deleted permission.  The code violates it.                              *)
(***************************************************************************)
C12_ReferencedPermissionKept ==
    [][\A c \in Users, i \in PermIds :
          (DeletePermission(c, i) /\ PlanReferences(i))
          => (/\ permissions' = permissions
              /\ DeletePermissionStatus(permissions, c, i) # "200")]_vars

(***************************************************************************)
(* C13 (Spec): the usage collection changes only by the write of           *)
(* track_usage made by a dummy_cloud_api request that check_access         *)
(* admitted, or by a call of delete_usage by an admin; a call of           *)
(* delete_usage by any other caller leaves it unchanged.  The code         *)
(* violates it: track_usage is an endpoint of its own.                     *)
(***************************************************************************)
C13_UsageWrittenOnlyByAdmittedConsume ==
    [][/\ usage' # usage =>
            \/ \E p \in DOMAIN procs :
                  CloudStepAt(p, "tu_write") /\ usage' = TrackWriteStore(usage, procs[p])
            \/ \E c \in Users, u \in UserIds, a \in Apis :
                  Role(c) = "admin" /\ DeleteUsage(c, u, a)
       /\ \A c \in Users, u \in UserIds, a \in Apis :
             (Role(c) # "admin" /\ DeleteUsage(c, u, a)) => usage' = usage]_vars

(***************************************************************************)
(* C14 (SpecKeys): a step of a dummy_cloud_api or track_usage request for  *)
(* the key (user, api), and a call of delete_usage for it, leave unchanged *)
(* the usage documents of every other key and the permissions, plans and   *)
(* subscriptions collections, whatever requests on other keys are in       *)
(* flight.                                                                 *)
(***************************************************************************)
C14_KeyIndependence ==
    [][/\ \A p \in DOMAIN procs :
             (~Free(p) /\ procs'[p] # procs[p])
             => OtherKeysUntouched(procs[p].uid, procs[p].api)
       /\ \A c \in Users, u \in UserIds, a \in Apis :
             DeleteUsage(c, u, a) => OtherKeysUntouched(u, a)]_vars

\* Two keys hold records, one raised past 1 by an update, while a request on the
\* other key is between its lookup and its write.
C14_Witness ==
    \E u1 \in UserIds, u2 \in UserIds, a \in Apis, p \in DOMAIN procs :
        /\ u1 # u2
        /\ CountOf(FindUsage(u1, a)) >= 2
        /\ FindUsage(u2, a) # <<>>
        /\ procs[p].pc = "tu_write"
        /\ procs[p].uid = u2
        /\ \E q \in DOMAIN procs : Denied(procs[q], "200") /\ procs[q].uid = u1

(***************************************************************************)
(* C15 (SpecKeys): the usage collection never holds two documents with the *)
(* same (user_id, api_name), also after concurrent requests of track_usage *)
(* that each found no document for the key.  The code violates it.         *)
(***************************************************************************)
C15_OneUsageRecordPerKey ==
    \A i, j \in 1 .. Len(usage) :
        (usage[i].user_id = usage[j].user_id /\ usage[i].api_name = usage[j].api_name)
        => i = j

(***************************************************************************)
(* C16 (SpecKeys): in a step that deletes no usage document, the count of  *)
(* no usage document decreases, under any interleaving of concurrent       *)
(* requests of track_usage.  The code violates it.                         *)
(***************************************************************************)
C16_CountNeverDecreases ==
    [][Len(usage') >= Len(usage)
       => \A i \in 1 .. Len(usage) : usage'[i].count >= usage[i].count]_vars

(***************************************************************************)
(* C17 (SpecAdmin): a call of add_permission, delete_permission,           *)
(* create_plan, modify_plan, delete_plan, delete_subscription or           *)
(* delete_usage by a caller whose role is not admin, and a call of         *)
(* subscribe by a caller whose role is not customer, is answered 403 and   *)
(* leaves the four collections unchanged: these endpoints change the store *)
(* only for a caller with the role.                                        *)
(***************************************************************************)
C17_RoleGating ==
    [][\A c \in Users :
          LET Refused(status) ==
                  /\ UNCHANGED <<permissions, plans, subscriptions, usage>>
                  /\ status = "403"
          IN  /\ Role(c) # "admin" =>
                    /\ \A body \in PermissionBodies :
                          AddPermission(c, body) => Refused(AddPermissionStatus(c))
                    /\ \A i \in PermIds :
                          DeletePermission(c, i)
                          => Refused(DeletePermissionStatus(permissions, c, i))
                    /\ \A body \in PlanBodies :
                          CreatePlan(c, body) => Refused(CreatePlanStatus(c))
                    /\ \A i \in PlanIds, body \in PlanBodies :
                          ModifyPlan(c, i, body) => Refused(ModifyPlanStatus(c))
                    /\ \A i \in PlanIds :
                          DeletePlan(c, i) => Refused(DeletePlanStatus(plans, c, i))
                    /\ \A u \in UserIds :
                          DeleteSubscription(c, u)
                          => Refused(DeleteSubscriptionStatus(subscriptions, c, u))
                    /\ \A u \in UserIds, a \in Apis :
                          DeleteUsage(c, u, a) => Refused(DeleteUsageStatus(usage, c, u, a))
              /\ Role(c) # "customer" =>
                    \A sub \in SubscriptionBodies :
                        Subscribe(c, sub) => Refused(SubscribeStatus(c))]_vars

\* Every collection holds a document that a call by an admin would remove and the
\* same call by a customer leaves in place, and a subscription that a customer's
\* call of subscribe would store and an admin's would not.
C17_Witness ==
    \E ad \in Users, cu \in Users :
        /\ Role(ad) = "admin"
        /\ Role(cu) = "customer"
        /\ permissions # <<>>
        /\ DeletePermissionStore(permissions, ad, permissions[1].id) # permissions
        /\ DeletePermissionStore(permissions, cu, permissions[1].id) = permissions
        /\ plans # <<>>
        /\ DeletePlanStore(plans, ad, plans[1].id) # plans
        /\ DeletePlanStore(plans, cu, plans[1].id) = plans
        /\ subscriptions # <<>>
        /\ DeleteSubscriptionStore(subscriptions, ad, subscriptions[1].user_id) # subscriptions
        /\ DeleteSubscriptionStore(subscriptions, cu, subscriptions[1].user_id) = subscriptions
        /\ usage # <<>>
        /\ DeleteUsageStore(usage, ad, usage[1].user_id, usage[1].api_name) # usage
        /\ DeleteUsageStore(usage, cu, usage[1].user_id, usage[1].api_name) = usage
        /\ \E sub \in SubscriptionBodies :
              /\ SubscribeStore(subscriptions, cu, sub) # subscriptions
              /\ SubscribeStore(subscriptions, ad, sub) = subscriptions

====
